---- MODULE Spec2Model ----
(***************************************************************************)
(* Model of the JungleLabStudio Tauri backend (src-tauri/src):             *)
(*   config.rs  LayerConfig, Config (default/load/save), ConfigState       *)
(*   main.rs    commands set_layer_opacity, get_config, save_config, main  *)
(*   midi.rs    MIDI input task and its connect callback                   *)
(*   audio.rs   audio capture task, its data and error callbacks           *)
(* The commands are async Tauri commands: several invocations can be in    *)
(* flight at once, each one a process with a program counter.              *)
(***************************************************************************)
EXTENDS Integers, Sequences, FiniteSets, TLC

VARIABLES
    phase,      \* "loaded": main has run Config::load; "running": state managed, commands served
    file,       \* content of config.json on disk
    cfg,        \* the Config inside ConfigState.inner
    lock,       \* owner of the ConfigState.inner mutex, NoOwner when free
    atLock,     \* history: cfg as it was when the mutex was last acquired
    pc,         \* position of each command invocation
    arg,        \* arguments of the invocation in flight
    snap,       \* get_config: the clone under construction
    text,       \* save_config: the serialised text
    res,        \* save_config: result of Config::save
    ret,        \* value last handed back to the caller
    hist,       \* history: the store states after each whole set_layer_opacity
    lastSet,    \* history: opacity of the last set_layer_opacity per key
    calls,      \* number of command invocations so far
    restarts,   \* number of process restarts so far
    midiPc,     \* position of the MIDI task
    events,     \* the emit_all calls so far, in order
    lastMsg,    \* the raw MIDI message of the last callback
    nBefore,    \* number of events before the last callback
    delivered,  \* number of raw MIDI messages delivered so far
    audioPc,    \* position of the audio task
    buffer,     \* the transform buffer the data callback owns
    prevBuffer, \* history: the buffer when the previous data callback began
    lastBlock,  \* the sample block of the last data callback
    aBefore,    \* number of events before the last data callback
    blocks,     \* number of sample blocks delivered so far
    streamErrs, \* number of stream errors the driver reported (lines on stderr)
    lastAudio,  \* which audio callback ran last: "none", "data" or "error"
    listening,  \* whether emit_all currently succeeds
    outcomes,   \* the result of each emit_all call, in step with events
    midiLog,    \* history: the raw MIDI messages, in arrival order
    audioLog    \* history: the sample blocks, in arrival order

cfgVars  == <<phase, file, cfg, lock, atLock, pc, arg, snap, text, res, ret,
              hist, lastSet, calls, restarts>>
midiVars == <<midiPc, events, lastMsg, nBefore, delivered>>
audioVars == <<audioPc, buffer, prevBuffer, lastBlock, aBefore, blocks,
               streamErrs, lastAudio>>
sinkVars == <<listening, outcomes>>
logVars  == <<midiLog, audioLog>>
pipeVars == <<midiVars, audioVars, sinkVars, logVars>>
vars     == <<cfgVars, midiVars, audioVars, sinkVars, logVars>>

----------------------------------------------------------------------------
(* Bounds *)
NumProcs    == 2    \* command invocations that can be in flight together
MaxCalls    == 3    \* command invocations per run of the model
MaxRestarts == 1    \* process restarts
MaxMsgs     == 2    \* raw MIDI messages delivered
MaxBlocks   == 2    \* sample blocks delivered to the audio callback
MaxStreamErrs == 1  \* stream errors the driver reports
MaxInputs   == 3    \* messages plus blocks, where both pipelines run together
MaxWork     == 4    \* invocations plus messages plus blocks, commands and pipelines together
MaxFairCalls == 2   \* command invocations where the commands are scheduled fairly

Procs   == 1..NumProcs
NoOwner == 0

----------------------------------------------------------------------------
(* config.rs: values *)

\* f32 values are named by their shortest decimal text ("0.5", "1.0"), which
\* is what serde_json writes and reads back to the same f32; "inf" stands for
\* the non-finite values (inf, -inf, NaN).
IsFinite(x) == x # "inf"

EmptyMap == [k \in {} |-> 0]

\* Faulty variant: the field-wise zero default a derived Default would give.
LayerConfigDerivedDefault ==
    [opacity |-> "0.0", fade_ms |-> 0, thumbnail |-> "", midi_channel |-> 0]

LayerConfigDefault ==
    [opacity |-> "1.0", fade_ms |-> 200, thumbnail |-> "", midi_channel |-> 0]

\* Faulty variant: the default layers carry the zero-indexed channels 13, 14, 15.
ConfigDefaultZeroIndexed ==
    [k \in {"A", "B", "C"} |->
        [opacity |-> "1.0", fade_ms |-> 200, thumbnail |-> "",
         midi_channel |-> CASE k = "A" -> 13 [] k = "B" -> 14 [] k = "C" -> 15]]

ConfigDefault ==
    [k \in {"A", "B", "C"} |->
        [LayerConfigDefault EXCEPT
            !.midi_channel = CASE k = "A" -> 14 [] k = "B" -> 15 [] k = "C" -> 16]]

(* serde_json: a non-finite float is written as null, and null does not
   read back as an f32. *)
FmtF32(x)   == IF IsFinite(x) THEN x ELSE "null"
ParsesF32(t) == t # "null"

Serialize(c) ==
    [kind |-> "json",
     layers |-> [k \in DOMAIN c |->
                   [opacity      |-> FmtF32(c[k].opacity),
                    fade_ms      |-> c[k].fade_ms,
                    thumbnail    |-> c[k].thumbnail,
                    midi_channel |-> c[k].midi_channel]]]

Readable(f) == f.kind # "missing"
Parses(f)   == /\ f.kind = "json"
               /\ \A k \in DOMAIN f.layers : ParsesF32(f.layers[k].opacity)

FromStr(f) ==
    [k \in DOMAIN f.layers |->
        [opacity      |-> f.layers[k].opacity,
         fade_ms      |-> f.layers[k].fade_ms,
         thumbnail    |-> f.layers[k].thumbnail,
         midi_channel |-> f.layers[k].midi_channel]]

Load(f) == IF Readable(f) /\ Parses(f) THEN FromStr(f) ELSE ConfigDefault

----------------------------------------------------------------------------
(* The files config.json can hold when the process starts *)
MissingFile == [kind |-> "missing"]
GarbageFile == [kind |-> "garbage"]
CustomFile  ==
    [kind |-> "json",
     layers |-> [k \in {"A"} |->
                   [opacity |-> "0.5", fade_ms |-> 500,
                    thumbnail |-> "a.png", midi_channel |-> 3]]]
InitialFiles == {MissingFile, GarbageFile, CustomFile}

CallKeys      == {"A", "D"}
CallOpacities == {"0.5", "inf"}

NoArg == [layer |-> "", opacity |-> "1.0"]
NoRet == [kind |-> "none"]

----------------------------------------------------------------------------
\* Faulty variant: an existing layer is left alone (entry().or_insert).
SetLayerOpacityInsertOnly(c, layer, opacity) ==
    [k \in DOMAIN c \cup {layer} |->
        IF k \in DOMAIN c THEN c[k]
        ELSE [opacity |-> opacity, fade_ms |-> 200, thumbnail |-> "", midi_channel |-> 0]]

\* Faulty variant: the layer is always replaced by a fresh LayerConfig.
SetLayerOpacityReplace(c, layer, opacity) ==
    [k \in DOMAIN c \cup {layer} |->
        IF k = layer
        THEN [opacity |-> opacity, fade_ms |-> 200, thumbnail |-> "", midi_channel |-> 0]
        ELSE c[k]]

(* main.rs: set_layer_opacity's body on the locked Config *)
SetLayerOpacity(c, layer, opacity) ==
    IF layer \in DOMAIN c
    THEN [c EXCEPT ![layer].opacity = opacity]
    ELSE [k \in DOMAIN c \cup {layer} |->
            IF k = layer THEN [LayerConfigDefault EXCEPT !.opacity = opacity]
            ELSE c[k]]

\* Faulty variant: the lock is taken without waiting for its owner to release it.
MutexLockNoWait(p) ==
    /\ lock' = p
    /\ atLock' = cfg

(* state.inner.lock(): blocks until the mutex is free *)
MutexLock(p) ==
    /\ lock = NoOwner
    /\ lock' = p
    /\ atLock' = cfg

\* Faulty variant: the guard is leaked (mem::forget) and the mutex stays locked.
MutexUnlockLeaked(p) == lock' = lock

(* the MutexGuard is dropped when the command returns *)
MutexUnlock(p) == lock' = NoOwner

\* Faulty variant: the result of Config::save is dropped and Ok(()) returned.
SaveResultIgnored(r) == [kind |-> "Ok"]

(* save_config: Config::save's anyhow result mapped to Result<(), String> *)
SaveResult(r) == IF r = "Ok" THEN [kind |-> "Ok"] ELSE [kind |-> "Err", msg |-> r]

----------------------------------------------------------------------------
(* audio.rs: values *)

\* let fft_size = 1024usize
FftSize == 1024

\* A Vec of FftSize numbers is kept as a sequence of runs of consecutive
\* elements.  A run of Complex<f32>: zeros; the samples of one block; output
\* bins of the transform of an earlier buffer.  A run of f32: the norms of a
\* run of Complex<f32>.  The transform and the norm are library functions
\* and stay uninterpreted: bin k of the transform of buffer b is the term
\* [bin |-> k, of |-> b].
ZeroRun(n)             == [kind |-> "zero", len |-> n]
SampleRun(v, n)        == [kind |-> "sample", val |-> v, len |-> n]
BinRun(input, from, n) == [kind |-> "bin", of |-> input, from |-> from, len |-> n]
NormRun(r)             == [kind |-> "norm", arg |-> r, len |-> r.len]

\* Vec::len
RECURSIVE VecLen(_)
VecLen(v) == IF v = <<>> THEN 0 ELSE v[1].len + VecLen(Tail(v))

\* element i of run r (0 <= i < r.len)
RECURSIVE RunAt(_, _)
RunAt(r, i) ==
    CASE r.kind = "zero"   -> [re |-> "0.0", im |-> "0.0"]
      [] r.kind = "sample" -> [re |-> r.val, im |-> "0.0"]
      [] r.kind = "bin"    -> [bin |-> r.from + i, of |-> r.of]
      [] r.kind = "norm"   -> [norm |-> RunAt(r.arg, i)]

\* v[i], indices from 0 as in the source
RECURSIVE At(_, _)
At(v, i) == IF i < v[1].len THEN RunAt(v[1], i) ELSE At(Tail(v), i - v[1].len)

\* run r without its first n elements (0 < n < r.len)
SkipRun(r, n) ==
    IF r.kind = "bin" THEN [r EXCEPT !.from = @ + n, !.len = @ - n]
    ELSE [r EXCEPT !.len = @ - n]

\* the elements of v from index n on
RECURSIVE Drop(_, _)
Drop(v, n) ==
    IF n = 0 \/ v = <<>> THEN v
    ELSE IF n >= v[1].len THEN Drop(Tail(v), n - v[1].len)
    ELSE <<SkipRun(v[1], n)>> \o Tail(v)

\* vec![Complex{ re:0.0, im:0.0}; fft_size]
InitialBuffer == <<ZeroRun(FftSize)>>

\* The sample blocks the driver delivers: none, a few, exactly FftSize, or
\* more than FftSize samples, every sample of a block having the same value.
BlockVals == {"0.25", "0.5"}
EmptyBlock == [val |-> "0.0", len |-> 0]
Blocks ==
    {EmptyBlock}
    \cup {[val |-> v, len |-> n] : v \in BlockVals, n \in {3, FftSize, FftSize + 1}}

\* Faulty variant: the loop runs over every sample of the block.
CopyCountAll(n) == n

\* data.iter().enumerate().take(fft_size): how many samples the loop copies
CopyCount(n) == IF n < FftSize THEN n ELSE FftSize

\* Faulty variant: the rest of the buffer is cleared before the transform.
OverwriteAndClear(buf, block) ==
    LET count == CopyCount(block.len)
    IN  (IF count = 0 THEN <<>> ELSE <<SampleRun(block.val, count)>>)
        \o (IF count < VecLen(buf) THEN <<ZeroRun(VecLen(buf) - count)>> ELSE <<>>)

\* the copy loop: buffer[i].re = *sample; buffer[i].im = 0.0 for i < count
Overwrite(buf, block) ==
    LET count == CopyCount(block.len)
    IN  IF count = 0 THEN buf
        ELSE <<SampleRun(block.val, count)>> \o Drop(buf, count)

\* fft.process(&mut buffer): in place, the buffer keeps its length
Fft(buf) == <<BinRun(buf, 0, VecLen(buf))>>

\* buffer.iter().map(|c| c.norm()).collect()
Mags(buf) == [j \in 1..Len(buf) |-> NormRun(buf[j])]

----------------------------------------------------------------------------
(* emit_all *)

\* Faulty variant: the new events are put ahead of the earlier ones.
EmitAhead(evs, new) == new \o evs

\* app.emit_all(name, payload), called in program order
Emit(evs, new) == evs \o new

\* the Result of each of these emit_all calls
EmitResults(new) == [j \in 1..Len(new) |-> IF listening THEN "Ok" ELSE "Err"]

\* Faulty variant: the Result is unwrapped, and an Err panics.
AfterEmitUnwrap(at, results) ==
    IF \E j \in 1..Len(results) : results[j] = "Err" THEN "panicked" ELSE at

\* let _ = app.emit_all(..): the Result is discarded and the caller goes on
AfterEmit(at, results) == at

----------------------------------------------------------------------------
Init ==
    /\ phase = "loaded"
    /\ file \in InitialFiles
    /\ cfg = Load(file)
    /\ lock = NoOwner
    /\ atLock = cfg
    /\ pc = [p \in Procs |-> "idle"]
    /\ arg = [p \in Procs |-> NoArg]
    /\ snap = [p \in Procs |-> EmptyMap]
    /\ text = [p \in Procs |-> GarbageFile]
    /\ res = [p \in Procs |-> "none"]
    /\ ret = [p \in Procs |-> NoRet]
    /\ hist = {cfg}
    /\ lastSet = EmptyMap
    /\ calls = 0
    /\ restarts = 0
    /\ midiPc = "spawned"
    /\ events = <<>>
    /\ lastMsg = <<>>
    /\ nBefore = 0
    /\ delivered = 0
    /\ audioPc = "spawned"
    /\ buffer = InitialBuffer
    /\ prevBuffer = InitialBuffer
    /\ lastBlock = EmptyBlock
    /\ aBefore = 0
    /\ blocks = 0
    /\ streamErrs = 0
    /\ lastAudio = "none"
    /\ listening = TRUE
    /\ outcomes = <<>>
    /\ midiLog = <<>>
    /\ audioLog = <<>>

(* main: the builder manages ConfigState and starts serving commands *)
Manage ==
    /\ phase = "loaded"
    /\ phase' = "running"
    /\ UNCHANGED <<file, cfg, lock, atLock, pc, arg, snap, text, res, ret,
                   hist, lastSet, calls, restarts, pipeVars>>

Invoke(p, name, a) ==
    /\ phase = "running"
    /\ pc[p] = "idle"
    /\ calls < MaxCalls
    /\ calls' = calls + 1
    /\ pc' = [pc EXCEPT ![p] = name]
    /\ arg' = [arg EXCEPT ![p] = a]
    /\ ret' = [ret EXCEPT ![p] = NoRet]
    /\ UNCHANGED <<phase, file, cfg, lock, atLock, snap, text, res, hist, lastSet,
                   restarts, pipeVars>>

(* set_layer_opacity *)
SetInvoke(p) ==
    \E layer \in CallKeys, opacity \in CallOpacities :
        Invoke(p, "set_lock", [layer |-> layer, opacity |-> opacity])

SetLock(p) ==
    /\ pc[p] = "set_lock"
    /\ MutexLock(p)
    /\ pc' = [pc EXCEPT ![p] = "set_body"]
    /\ UNCHANGED <<phase, file, cfg, arg, snap, text, res, ret, hist, lastSet,
                   calls, restarts, pipeVars>>

SetBody(p) ==
    /\ pc[p] = "set_body"
    /\ cfg' = SetLayerOpacity(cfg, arg[p].layer, arg[p].opacity)
    /\ hist' = hist \cup {cfg'}
    /\ lastSet' = [k \in DOMAIN lastSet \cup {arg[p].layer} |->
                     IF k = arg[p].layer THEN arg[p].opacity ELSE lastSet[k]]
    /\ pc' = [pc EXCEPT ![p] = "set_ret"]
    /\ UNCHANGED <<phase, file, lock, atLock, arg, snap, text, res, ret,
                   calls, restarts, pipeVars>>

SetReturn(p) ==
    /\ pc[p] = "set_ret"
    /\ MutexUnlock(p)
    /\ ret' = [ret EXCEPT ![p] = [kind |-> "unit"]]
    /\ pc' = [pc EXCEPT ![p] = "idle"]
    /\ arg' = [arg EXCEPT ![p] = NoArg]
    /\ UNCHANGED <<phase, file, cfg, atLock, snap, text, res, hist, lastSet,
                   calls, restarts, pipeVars>>

(* get_config *)
GetInvoke(p) == Invoke(p, "get_lock", NoArg)

GetLock(p) ==
    /\ pc[p] = "get_lock"
    /\ MutexLock(p)
    /\ pc' = [pc EXCEPT ![p] = "get_clone"]
    /\ UNCHANGED <<phase, file, cfg, arg, snap, text, res, ret, hist, lastSet,
                   calls, restarts, pipeVars>>

(* cfg.clone(): the map is copied entry by entry, in the map's own order *)
GetClone(p) ==
    /\ pc[p] = "get_clone"
    /\ \/ /\ \E k \in DOMAIN cfg \ DOMAIN snap[p] :
               snap' = [snap EXCEPT ![p] =
                          [j \in DOMAIN snap[p] \cup {k} |->
                              IF j = k THEN cfg[k] ELSE snap[p][j]]]
          /\ pc' = pc
       \/ /\ DOMAIN cfg \subseteq DOMAIN snap[p]
          /\ pc' = [pc EXCEPT ![p] = "get_ret"]
          /\ snap' = snap
    /\ UNCHANGED <<phase, file, cfg, lock, atLock, arg, text, res, ret, hist,
                   lastSet, calls, restarts, pipeVars>>

GetReturn(p) ==
    /\ pc[p] = "get_ret"
    /\ MutexUnlock(p)
    /\ ret' = [ret EXCEPT ![p] = [kind |-> "config", value |-> snap[p]]]
    /\ pc' = [pc EXCEPT ![p] = "idle"]
    /\ snap' = [snap EXCEPT ![p] = EmptyMap]
    /\ UNCHANGED <<phase, file, cfg, atLock, arg, text, res, hist, lastSet,
                   calls, restarts, pipeVars>>

(* save_config *)
SaveInvoke(p) == Invoke(p, "save_lock", NoArg)

SaveLock(p) ==
    /\ pc[p] = "save_lock"
    /\ MutexLock(p)
    /\ pc' = [pc EXCEPT ![p] = "save_to_string"]
    /\ UNCHANGED <<phase, file, cfg, arg, snap, text, res, ret, hist, lastSet,
                   calls, restarts, pipeVars>>

\* Faulty variant: the config is serialised under the lock and the guard dropped
\* before the file is written.
SaveToStringThenUnlock(p) ==
    /\ pc[p] = "save_to_string"
    /\ text' = [text EXCEPT ![p] = Serialize(cfg)]
    /\ pc' = [pc EXCEPT ![p] = "save_create"]
    /\ lock' = NoOwner
    /\ UNCHANGED <<phase, file, cfg, atLock, arg, snap, res, ret, hist, lastSet,
                   calls, restarts, pipeVars>>

(* Config::save, line 44: serde_json::to_string_pretty(self)? *)
SaveToString(p) ==
    /\ pc[p] = "save_to_string"
    /\ \/ /\ text' = [text EXCEPT ![p] = Serialize(cfg)]
          /\ pc' = [pc EXCEPT ![p] = "save_create"]
          /\ res' = res
       \/ /\ res' = [res EXCEPT ![p] = "serialize error"]
          /\ pc' = [pc EXCEPT ![p] = "save_ret"]
          /\ text' = text
    /\ UNCHANGED <<phase, file, cfg, lock, atLock, arg, snap, ret, hist, lastSet,
                   calls, restarts, pipeVars>>

(* Config::save, line 45: fs::write opens the file truncating it ... *)
SaveCreate(p) ==
    /\ pc[p] = "save_create"
    /\ \/ /\ file' = GarbageFile
          /\ pc' = [pc EXCEPT ![p] = "save_write"]
          /\ res' = res
       \/ /\ res' = [res EXCEPT ![p] = "io error"]
          /\ pc' = [pc EXCEPT ![p] = "save_ret"]
          /\ file' = file
    /\ UNCHANGED <<phase, cfg, lock, atLock, arg, snap, text, ret, hist, lastSet,
                   calls, restarts, pipeVars>>

(* ... and writes the whole text *)
SaveWrite(p) ==
    /\ pc[p] = "save_write"
    /\ \/ /\ file' = text[p]
          /\ res' = [res EXCEPT ![p] = "Ok"]
       \/ /\ file' = GarbageFile
          /\ res' = [res EXCEPT ![p] = "io error"]
    /\ pc' = [pc EXCEPT ![p] = "save_ret"]
    /\ UNCHANGED <<phase, cfg, lock, atLock, arg, snap, text, ret, hist, lastSet,
                   calls, restarts, pipeVars>>

SaveReturn(p) ==
    /\ pc[p] = "save_ret"
    /\ MutexUnlock(p)
    /\ ret' = [ret EXCEPT ![p] = SaveResult(res[p])]
    /\ pc' = [pc EXCEPT ![p] = "idle"]
    /\ text' = [text EXCEPT ![p] = GarbageFile]
    /\ res' = [res EXCEPT ![p] = "none"]
    /\ UNCHANGED <<phase, file, cfg, atLock, arg, snap, hist, lastSet,
                   calls, restarts, pipeVars>>

(* The process ends (at any point) and main runs again: Config::load *)
Restart ==
    /\ restarts < MaxRestarts
    /\ restarts' = restarts + 1
    /\ phase' = "loaded"
    /\ cfg' = Load(file)
    /\ lock' = NoOwner
    /\ atLock' = cfg'
    /\ pc' = [p \in Procs |-> "idle"]
    /\ arg' = [p \in Procs |-> NoArg]
    /\ snap' = [p \in Procs |-> EmptyMap]
    /\ text' = [p \in Procs |-> GarbageFile]
    /\ res' = [p \in Procs |-> "none"]
    /\ ret' = [p \in Procs |-> NoRet]
    /\ hist' = {cfg'}
    /\ lastSet' = EmptyMap
    /\ UNCHANGED <<file, calls, pipeVars>>

NextConfig ==
    \/ Manage
    \/ Restart
    \/ \E p \in Procs :
        \/ SetInvoke(p) \/ SetLock(p) \/ SetBody(p) \/ SetReturn(p)
        \/ GetInvoke(p) \/ GetLock(p) \/ GetClone(p) \/ GetReturn(p)
        \/ SaveInvoke(p) \/ SaveLock(p) \/ SaveToString(p) \/ SaveCreate(p)
        \/ SaveWrite(p) \/ SaveReturn(p)

SpecConfig == Init /\ [][NextConfig]_vars

----------------------------------------------------------------------------
(* The commands of one run of the process, each scheduled fairly: a command
   that can take its next step eventually takes it (the async runtime polls
   every spawned command, and the file write terminates) *)

(* the next step of the command p is running *)
CommandStep(p) ==
    \/ SetLock(p) \/ SetBody(p) \/ SetReturn(p)
    \/ GetLock(p) \/ GetClone(p) \/ GetReturn(p)
    \/ SaveLock(p) \/ SaveToString(p) \/ SaveCreate(p)
    \/ SaveWrite(p) \/ SaveReturn(p)

(* the webview invokes a command *)
CommandInvoke(p) ==
    /\ calls < MaxFairCalls
    /\ (SetInvoke(p) \/ GetInvoke(p) \/ SaveInvoke(p))

(* the process starts where no config.json exists yet *)
InitFirstRun == Init /\ file = MissingFile

NextCommands ==
    \/ Manage
    \/ \E p \in Procs : CommandInvoke(p)
    \/ \E p \in Procs : CommandStep(p)

SpecFair ==
    /\ InitFirstRun
    /\ [][NextCommands]_vars
    /\ \A p \in Procs : WF_vars(CommandStep(p))

----------------------------------------------------------------------------
(* midi.rs *)

\* u8 bitwise and
RECURSIVE BitAnd(_, _)
BitAnd(a, b) ==
    IF a = 0 \/ b = 0 THEN 0
    ELSE (a % 2) * (b % 2) + 2 * BitAnd(a \div 2, b \div 2)

\* The raw messages the driver delivers: any length from 0 to 4, status bytes
\* with every low nibble under several high nibbles,
\* data bytes at the ends of the 7-bit and 8-bit ranges.
HighNibbles == {0, 9, 15}
LowNibbles  == 0..15
StatusBytes == {16 * h + l : h \in HighNibbles, l \in LowNibbles}
NoteBytes   == {127, 128}
VelBytes    == {0, 255}
Messages ==
    {<<>>}
    \cup {<<s>> : s \in StatusBytes}
    \cup {<<s, n>> : s \in StatusBytes, n \in NoteBytes}
    \cup {<<s, n, v>> : s \in StatusBytes, n \in NoteBytes, v \in VelBytes}
    \cup {<<s, n, v, 0>> : s \in StatusBytes, n \in NoteBytes, v \in VelBytes}

\* Faulty variant: the accepted channels are the midi_channel values of the
\* layers in the config store.
ChannelAcceptedFromConfig(channel) ==
    \E k \in DOMAIN cfg : cfg[k].midi_channel = channel + 1

\* Faulty variant: the half-open range 13..15.
ChannelAcceptedHalfOpen(channel) == 13 <= channel /\ channel < 15

\* (13..=15).contains(&channel)
ChannelAccepted(channel) == 13 <= channel /\ channel <= 15

\* message.len() >= 3
LongEnough(message) == Len(message) >= 3

\* the connect callback's emissions for one raw message
MidiCallbackEvents(message) ==
    IF LongEnough(message)
    THEN LET status  == message[1]
             channel == BitAnd(status, 15)
         IN  IF ChannelAccepted(channel)
             THEN <<[name |-> "midi",
                     payload |-> <<(channel + 1) % 256, message[2], message[3]>>]>>
             ELSE <<>>
    ELSE <<>>

(* run fails before the connection is open: MidiInput::new, no port, or
   connect; start logs it and emits "error" *)
MidiStartFail ==
    /\ midiPc = "spawned"
    /\ \E why \in {"midi init", "no midi input", "connect"} :
          LET new == <<[name |-> "error", payload |-> why]>>
          IN  /\ events' = Emit(events, new)
              /\ outcomes' = outcomes \o EmitResults(new)
    /\ midiPc' = "failed"
    /\ UNCHANGED <<cfgVars, lastMsg, nBefore, delivered, audioVars, listening, logVars>>

\* Faulty variant: the connection is bound to _ and dropped at once, while
\* run awaits.
MidiConnectDropped ==
    /\ midiPc = "spawned"
    /\ midiPc' = "disconnected"
    /\ UNCHANGED <<cfgVars, events, lastMsg, nBefore, delivered, audioVars,
                   sinkVars, logVars>>

(* run opens the connection, keeps it in _conn and awaits
   futures::future::pending, which never completes *)
MidiConnect ==
    /\ midiPc = "spawned"
    /\ midiPc' = "connected"
    /\ UNCHANGED <<cfgVars, events, lastMsg, nBefore, delivered, audioVars,
                   sinkVars, logVars>>

(* the connect callback on one raw message *)
MidiStep(message) ==
    /\ midiPc = "connected"
    /\ LET new == MidiCallbackEvents(message)
       IN  /\ events' = Emit(events, new)
           /\ outcomes' = outcomes \o EmitResults(new)
           /\ midiPc' = AfterEmit(midiPc, EmitResults(new))
    /\ lastMsg' = message
    /\ nBefore' = Len(events)
    /\ delivered' = delivered + 1
    /\ UNCHANGED <<cfgVars, audioVars, listening>>

(* the driver delivers one raw message to the callback *)
MidiCallback ==
    /\ delivered < MaxMsgs
    /\ \E message \in Messages : MidiStep(message)
    /\ UNCHANGED logVars

NextMidi == MidiStartFail \/ MidiConnect \/ MidiCallback

SpecMidi == Init /\ [][NextMidi]_vars

----------------------------------------------------------------------------
(* audio.rs *)

\* Faulty variant: the audio task surfaces its startup failure as an "error"
\* event, as the MIDI task does.
AudioStartFailSurfaced ==
    /\ audioPc = "spawned"
    /\ audioPc' = "failed"
    /\ LET new == <<[name |-> "error", payload |-> "no input device"]>>
       IN  /\ events' = Emit(events, new)
           /\ outcomes' = outcomes \o EmitResults(new)
    /\ UNCHANGED <<cfgVars, midiPc, lastMsg, nBefore, delivered, buffer,
                   prevBuffer, lastBlock, aBefore, blocks, streamErrs,
                   lastAudio, listening, logVars>>

(* run fails before the stream plays: no input device, no input config,
   build_input_stream or play; start prints it to stderr and nothing else *)
AudioStartFail ==
    /\ audioPc = "spawned"
    /\ audioPc' = "failed"
    /\ UNCHANGED <<cfgVars, midiVars, buffer, prevBuffer, lastBlock, aBefore,
                   blocks, streamErrs, lastAudio, sinkVars, logVars>>

(* run builds the stream, plays it and parks its thread *)
AudioPlay ==
    /\ audioPc = "spawned"
    /\ audioPc' = "streaming"
    /\ UNCHANGED <<cfgVars, midiVars, buffer, prevBuffer, lastBlock, aBefore,
                   blocks, streamErrs, lastAudio, sinkVars, logVars>>

(* std::thread::park() may return without an unpark (a spurious wakeup):
   run then returns Ok(()) and the stream is dropped *)
AudioParkWakes ==
    /\ audioPc = "streaming"
    /\ audioPc' = "returned"
    /\ UNCHANGED <<cfgVars, midiVars, buffer, prevBuffer, lastBlock, aBefore,
                   blocks, streamErrs, lastAudio, sinkVars, logVars>>

(* the data callback on one block of samples; buffer[i] panics when i is
   past the end of the buffer *)
AudioStep(block) ==
    /\ audioPc = "streaming"
    /\ IF CopyCount(block.len) > VecLen(buffer)
       THEN /\ audioPc' = "panicked"
            /\ UNCHANGED <<buffer, events, outcomes>>
       ELSE LET new == <<[name |-> "fft", payload |-> Mags(buffer')]>>
            IN  /\ buffer' = Fft(Overwrite(buffer, block))
                /\ events' = Emit(events, new)
                /\ outcomes' = outcomes \o EmitResults(new)
                /\ audioPc' = AfterEmit(audioPc, EmitResults(new))
    /\ prevBuffer' = buffer
    /\ lastBlock' = block
    /\ aBefore' = Len(events)
    /\ blocks' = blocks + 1
    /\ lastAudio' = "data"
    /\ UNCHANGED <<cfgVars, midiPc, lastMsg, nBefore, delivered, streamErrs, listening>>

(* the driver delivers one block to the data callback *)
AudioData ==
    /\ blocks < MaxBlocks
    /\ \E block \in Blocks : AudioStep(block)
    /\ UNCHANGED logVars

\* Faulty variant: a stream error ends the pipeline.
AudioStreamErrorStops ==
    /\ audioPc = "streaming"
    /\ streamErrs < MaxStreamErrs
    /\ streamErrs' = streamErrs + 1
    /\ lastAudio' = "error"
    /\ audioPc' = "returned"
    /\ UNCHANGED <<cfgVars, midiVars, buffer, prevBuffer, lastBlock, aBefore,
                   blocks, sinkVars, logVars>>

(* the driver reports a stream error: the error callback prints it *)
AudioStreamError ==
    /\ audioPc = "streaming"
    /\ streamErrs < MaxStreamErrs
    /\ streamErrs' = streamErrs + 1
    /\ lastAudio' = "error"
    /\ UNCHANGED <<cfgVars, midiVars, audioPc, buffer, prevBuffer, lastBlock,
                   aBefore, blocks, sinkVars, logVars>>

(* the webview registers or removes its listeners: emit_all succeeds or not *)
SinkFlip ==
    /\ listening' = ~listening
    /\ UNCHANGED <<cfgVars, midiVars, audioVars, outcomes, logVars>>

NextAudio ==
    \/ AudioStartFail \/ AudioPlay \/ AudioParkWakes
    \/ AudioData \/ AudioStreamError \/ SinkFlip

SpecAudio == Init /\ [][NextAudio]_vars

----------------------------------------------------------------------------
(* Both pipelines running side by side, as main's setup starts them; the
   inputs the drivers delivered are logged per pipeline *)

\* A few of the raw messages: one too short, one on a channel that is
\* dropped, and two different ones that are forwarded.
SampleMessages == {<<144>>, <<144, 127, 0>>, <<157, 127, 0>>, <<159, 128, 255>>}

\* A few of the blocks: empty, short and full.
SampleBlocks ==
    {EmptyBlock, [val |-> "0.5", len |-> 3], [val |-> "0.25", len |-> FftSize]}

(* the MIDI driver delivers one raw message to the connect callback *)
PipeMidiCallback ==
    /\ delivered + blocks < MaxInputs
    /\ \E message \in SampleMessages :
          /\ MidiStep(message)
          /\ midiLog' = Append(midiLog, message)
    /\ UNCHANGED audioLog

(* the audio driver delivers one block to the data callback *)
PipeAudioData ==
    /\ delivered + blocks < MaxInputs
    /\ \E block \in SampleBlocks :
          /\ AudioStep(block)
          /\ audioLog' = Append(audioLog, block)
    /\ UNCHANGED midiLog

NextPipes ==
    \/ MidiStartFail \/ MidiConnect \/ PipeMidiCallback
    \/ AudioStartFail \/ AudioPlay \/ AudioParkWakes
    \/ PipeAudioData \/ AudioStreamError \/ SinkFlip

SpecPipes == Init /\ [][NextPipes]_vars

----------------------------------------------------------------------------
(* The whole application: the commands on the config store and the two
   pipelines, all started by main *)

\* Two raw messages: one on zero-indexed channel 2, the channel layer A of
\* CustomFile names as midi_channel 3, and one on zero-indexed channel 13.
AppMessages == {<<146, 127, 0>>, <<157, 127, 0>>}

\* One short block.
AppBlocks == {[val |-> "0.5", len |-> 3]}

(* a command is invoked by the webview, which here awaits each command
   before it invokes the next *)
AppInvoke ==
    /\ calls + delivered + blocks < MaxWork
    /\ \A q \in Procs : pc[q] = "idle"
    /\ LET p == CHOOSE q \in Procs : TRUE
       IN  SetInvoke(p) \/ GetInvoke(p) \/ SaveInvoke(p)

(* a command in flight takes its next step *)
AppCommandStep ==
    \E p \in Procs :
        \/ SetLock(p) \/ SetBody(p) \/ SetReturn(p)
        \/ GetLock(p) \/ GetClone(p) \/ GetReturn(p)
        \/ SaveLock(p) \/ SaveToString(p) \/ SaveCreate(p)
        \/ SaveWrite(p) \/ SaveReturn(p)

(* the MIDI driver delivers one raw message to the connect callback *)
AppMidiCallback ==
    /\ calls + delivered + blocks < MaxWork
    /\ \E message \in AppMessages :
          /\ MidiStep(message)
          /\ midiLog' = Append(midiLog, message)
    /\ UNCHANGED audioLog

(* the audio driver delivers one block to the data callback *)
AppAudioData ==
    /\ calls + delivered + blocks < MaxWork
    /\ \E block \in AppBlocks :
          /\ AudioStep(block)
          /\ audioLog' = Append(audioLog, block)
    /\ UNCHANGED midiLog

NextApp ==
    \/ Manage \/ AppInvoke \/ AppCommandStep
    \/ MidiConnect \/ AppMidiCallback
    \/ AudioPlay \/ AppAudioData

SpecApp == Init /\ [][NextApp]_vars

----------------------------------------------------------------------------
(* Properties of the config store, under SpecConfig *)

HoldsForSave == {"save_to_string", "save_create", "save_write", "save_ret"}

\* C1: when get_config has cloned the store (after any sequence of
\* set_layer_opacity calls, from any loaded config), every key that was set
\* at least once is in the snapshot with the opacity of the last call made
\* for that key.
C1_LastOpacityPerKey ==
    \A p \in Procs :
        pc[p] = "get_ret" =>
            \A k \in DOMAIN lastSet :
                k \in DOMAIN snap[p] /\ snap[p][k].opacity = lastSet[k]

\* C1 witness: get_config returns after the same key was set twice, to
\* different opacities.
C1_Witness ==
    \E p \in Procs :
        /\ pc[p] = "get_ret"
        /\ DOMAIN lastSet = {"A"}
        /\ Cardinality(hist) = 3
        /\ snap[p]["A"].opacity = "inf"

\* C2: set_layer_opacity on a key that already exists leaves the set of keys,
\* every other layer, and that layer's fade_ms, thumbnail and midi_channel
\* as they were when the call took the lock.
C2_ExistingKeyFrame ==
    \A p \in Procs :
        (pc[p] = "set_ret" /\ arg[p].layer \in DOMAIN atLock) =>
            /\ DOMAIN cfg = DOMAIN atLock
            /\ \A k \in DOMAIN atLock :
                  /\ cfg[k].fade_ms = atLock[k].fade_ms
                  /\ cfg[k].thumbnail = atLock[k].thumbnail
                  /\ cfg[k].midi_channel = atLock[k].midi_channel
                  /\ k # arg[p].layer => cfg[k].opacity = atLock[k].opacity

\* C2 witness: the opacity of an existing layer with non-default fields was
\* changed.
C2_Witness ==
    \E p \in Procs :
        /\ pc[p] = "set_ret"
        /\ arg[p].layer \in DOMAIN atLock
        /\ atLock[arg[p].layer].fade_ms = 500
        /\ cfg[arg[p].layer].opacity # atLock[arg[p].layer].opacity

\* C3: set_layer_opacity on a key that is not in the store adds exactly that
\* key, with the given opacity, fade 200 ms, empty thumbnail and MIDI
\* channel 0, and leaves every existing layer unchanged.
C3_NewKeyInserted ==
    \A p \in Procs :
        (pc[p] = "set_ret" /\ arg[p].layer \notin DOMAIN atLock) =>
            /\ DOMAIN cfg = DOMAIN atLock \cup {arg[p].layer}
            /\ cfg[arg[p].layer] =
                 [opacity |-> arg[p].opacity, fade_ms |-> 200,
                  thumbnail |-> "", midi_channel |-> 0]
            /\ \A k \in DOMAIN atLock : cfg[k] = atLock[k]

\* C3 witness: a layer "D" was added to a store that did not have it.
C3_Witness ==
    \E p \in Procs :
        /\ pc[p] = "set_ret"
        /\ arg[p].layer = "D"
        /\ "D" \notin DOMAIN atLock
        /\ "D" \in DOMAIN cfg

\* C4: every snapshot get_config builds and returns is the store as it stood
\* after a whole number of set_layer_opacity calls, the one at the moment
\* get_config took the lock; the entries copied so far are never out of step
\* with each other.
C4_SnapshotIsWholeState ==
    \A p \in Procs :
        /\ pc[p] = "get_clone" =>
              \A k \in DOMAIN snap[p] : k \in DOMAIN atLock /\ snap[p][k] = atLock[k]
        /\ pc[p] = "get_ret" => (snap[p] = atLock /\ snap[p] \in hist)
        /\ ret[p].kind = "config" => ret[p].value \in hist

\* C4 witness: a snapshot was returned while another invocation of
\* set_layer_opacity, which came after an earlier set, is waiting or running.
C4_Witness ==
    \E p, q \in Procs :
        /\ p # q
        /\ ret[p].kind = "config"
        /\ Cardinality(hist) >= 2
        /\ pc[q] \in {"set_lock", "set_body", "set_ret"}

\* C5: save_config holds the lock from its acquisition to its return: the
\* store does not change meanwhile, a successful write leaves on disk the
\* serialisation of the store as it was at acquisition, and at most one
\* save_config is between serialising and returning.
C5_SaveUnderLock ==
    /\ \A p \in Procs :
          pc[p] \in HoldsForSave => (lock = p /\ cfg = atLock)
    /\ \A p \in Procs :
          (pc[p] = "save_ret" /\ res[p] = "Ok") => file = Serialize(atLock)
    /\ Cardinality({p \in Procs : pc[p] \in HoldsForSave}) <= 1

\* C5 witness: a save has written the file while a set_layer_opacity and
\* nothing else waits for the lock, after an earlier set changed the store.
C5_Witness ==
    \E p, q \in Procs :
        /\ pc[p] = "save_ret"
        /\ res[p] = "Ok"
        /\ pc[q] = "set_lock"
        /\ Cardinality(hist) >= 2

\* The default snapshot, written out.
DefaultSnapshot ==
    [k \in {"A", "B", "C"} |->
        [opacity |-> "1.0", fade_ms |-> 200, thumbnail |-> "",
         midi_channel |-> IF k = "A" THEN 14 ELSE IF k = "B" THEN 15 ELSE 16]]

Unloadable(f) ==
    \/ f.kind \in {"missing", "garbage"}
    \/ f.kind = "json" /\ \E k \in DOMAIN f.layers : f.layers[k].opacity = "null"

\* C6: right after Config::load on a file that cannot be read or does not
\* parse, the config is exactly the default snapshot (A, B, C on channels 14,
\* 15, 16, opacity 1.0, fade 200 ms, empty thumbnail), and main goes on.
C6_LoadFallsBackToDefault ==
    (phase = "loaded" /\ Unloadable(file)) =>
        (cfg = DefaultSnapshot /\ ENABLED Manage)

\* C6 witness: the process restarted on a file a failed write left truncated.
C6_Witness ==
    /\ phase = "loaded"
    /\ restarts = 1
    /\ file = GarbageFile
    /\ calls >= 1
    /\ cfg = DefaultSnapshot

\* C7 (as claimed): after a successful save, loading the file gives back the
\* config that was saved.
C7_RoundTrip ==
    \A p \in Procs :
        (pc[p] = "save_ret" /\ res[p] = "Ok") => Load(file) = cfg

\* C8: when save_config returns after serialisation or the write failed, the
\* caller gets an Err, the config is what it was when the lock was taken, and
\* the lock is free.
C8_SaveFailureSurfaced ==
    [][\A p \in Procs :
          (pc[p] = "save_ret" /\ pc'[p] = "idle" /\ restarts' = restarts
             /\ res[p] \in {"serialize error", "io error"}) =>
                (ret'[p].kind = "Err" /\ cfg' = atLock /\ lock' = NoOwner)]_vars

\* C8 witness: a save returned an Err and another command then took the lock.
C8_Witness ==
    \E p, q \in Procs :
        /\ p # q
        /\ pc[p] = "idle"
        /\ ret[p].kind = "Err"
        /\ lock = q

----------------------------------------------------------------------------
(* Properties of the MIDI callback, under SpecMidi *)

\* C9: a raw message of at least 3 bytes whose status byte has low nibble 13,
\* 14 or 15 adds exactly one "midi" event, (low nibble + 1, byte 1, byte 2);
\* any other message adds no event; either way the connection stays open for
\* later messages.
C9_OneEventPerAcceptedMessage ==
    delivered > 0 =>
        /\ midiPc = "connected"
        /\ IF Len(lastMsg) >= 3 /\ (lastMsg[1] % 16) \in {13, 14, 15}
           THEN /\ Len(events) = nBefore + 1
                /\ events[Len(events)] =
                     [name |-> "midi",
                      payload |-> <<(lastMsg[1] % 16) + 1, lastMsg[2], lastMsg[3]>>]
           ELSE Len(events) = nBefore

\* C9 witness: a message was dropped and a later one on channel 15
\* (zero-indexed) was emitted as channel 16.
C9_Witness ==
    /\ delivered = 2
    /\ nBefore = 0
    /\ Len(events) = 1
    /\ events[1].payload[1] = 16

\* C10 (as claimed): every "midi" event has channel 14..16, note 0..127 and
\* velocity 0..127.
C10_MidiEventRanges ==
    \A i \in 1..Len(events) :
        events[i].name = "midi" =>
            /\ events[i].payload[1] \in 14..16
            /\ events[i].payload[2] \in 0..127
            /\ events[i].payload[3] \in 0..127

----------------------------------------------------------------------------
(* Properties of the audio callbacks, under SpecAudio *)

\* C11: every data callback, whatever the number of samples in its block,
\* emits exactly one event, an "fft" event of exactly 1024 values; so there
\* are as many "fft" events as blocks delivered.
C11_OneFrameOf1024PerBlock ==
    /\ audioPc # "panicked"
    /\ Len(SelectSeq(events, LAMBDA e : e.name = "fft")) = blocks
    /\ \A i \in 1..Len(events) :
          events[i].name = "fft" => VecLen(events[i].payload) = 1024
    /\ blocks > 0 =>
          /\ Len(events) = aBefore + 1
          /\ events[aBefore + 1].name = "fft"

\* C11 witness: a block of more than 1024 samples was processed after an
\* empty block, each giving one frame.
C11_Witness ==
    /\ blocks = 2
    /\ lastBlock.len = 1025
    /\ Len(events) = 2
    /\ VecLen(buffer) = 1024

\* C13 (as claimed): once the stream plays, the audio task never returns and
\* the stream is never dropped.
C13_AudioTaskNeverReturns == audioPc # "returned"

\* The buffer the last data callback transformed.
LastInput == buffer[1].of

\* C17: a stream error changes nothing but the log: the task stays where it
\* is, no event is emitted, the buffer and the config store are untouched;
\* and while the stream plays, the next block is still taken.
C17_StreamErrorOnlyLogged ==
    /\ [][streamErrs' # streamErrs =>
            /\ audioPc' = audioPc
            /\ events' = events
            /\ outcomes' = outcomes
            /\ buffer' = buffer
            /\ cfg' = cfg /\ lock' = lock /\ file' = file]_vars
    /\ []((streamErrs > 0 /\ audioPc = "streaming" /\ blocks < MaxBlocks)
             => ENABLED AudioData)

\* C17 witness: a data callback ran after a stream error and emitted its
\* frame.
C17_Witness ==
    /\ streamErrs = 1
    /\ lastAudio = "data"
    /\ audioPc = "streaming"
    /\ events[Len(events)].name = "fft"
    /\ Len(events) = aBefore + 1

\* The indices at which a run of v starts, counted from `from`.
RECURSIVE RunStarts(_, _)
RunStarts(v, from) ==
    IF v = <<>> THEN {} ELSE {from} \cup RunStarts(Tail(v), from + v[1].len)

\* The positions that decide an element-wise comparison over 0..1023: the
\* first and last position of every run of the buffers compared (inside a
\* run the elements are all equal, or consecutive bins), and the positions
\* around the block's length.
Probes ==
    LET starts == RunStarts(LastInput, 0) \cup RunStarts(prevBuffer, 0)
                    \cup {0, lastBlock.len, 1024}
    IN  {i \in starts \cup {j - 1 : j \in starts} : 0 <= i /\ i <= 1023}

\* C18: in a data callback with n < 1024 samples, the transformed buffer has
\* (sample, 0) at positions 0..n-1 and, at positions n..1023, what the
\* buffer held when the callback began, which is what the previous callback
\* left (zeros before the first one); the frame emitted is the norms of the
\* transform of that buffer.
C18_TailKeptFromPreviousCallback ==
    (blocks > 0 /\ lastBlock.len < 1024) =>
        /\ buffer[1].kind = "bin"
        /\ VecLen(LastInput) = 1024 /\ VecLen(prevBuffer) = 1024
        /\ \A i \in Probes :
              /\ At(LastInput, i) =
                   IF i < lastBlock.len
                   THEN [re |-> lastBlock.val, im |-> "0.0"]
                   ELSE At(prevBuffer, i)
              /\ At(buffer, i) = [bin |-> i, of |-> LastInput]
              /\ At(events[aBefore + 1].payload, i) = [norm |-> At(buffer, i)]
        /\ blocks = 1 => \A i \in Probes : At(prevBuffer, i) = [re |-> "0.0", im |-> "0.0"]

\* C18 witness: a short block came after a full one, and the tail of the
\* transformed buffer is output of the earlier transform, not zeros.
C18_Witness ==
    /\ blocks = 2
    /\ lastBlock.len = 3
    /\ At(prevBuffer, 1023) = [bin |-> 1023, of |-> <<SampleRun("0.5", 1024)>>]
    /\ At(LastInput, 1023) = At(prevBuffer, 1023)
    /\ At(LastInput, 2) = [re |-> lastBlock.val, im |-> "0.0"]

----------------------------------------------------------------------------
(* Lifetime of the MIDI task, under SpecMidi *)

\* C14: the MIDI task is only ever not yet connected, failed at startup, or
\* connected; once connected it stays connected in every step (run never
\* completes and _conn is never released), the callback can still be
\* delivered a message, and every qualifying message delivered has appended
\* its "midi" event.
C14_MidiTaskNeverCompletes ==
    /\ [](midiPc \in {"spawned", "failed", "connected"})
    /\ [][midiPc = "connected" => midiPc' = "connected"]_vars
    /\ []((midiPc = "connected" /\ delivered < MaxMsgs) => ENABLED MidiCallback)
    /\ []((delivered > 0 /\ Len(lastMsg) >= 3 /\ (lastMsg[1] % 16) \in 13..15)
             => /\ midiPc = "connected"
                /\ Len(events) = nBefore + 1
                /\ events[Len(events)].name = "midi"
                /\ events[Len(events)].payload[2] = lastMsg[2])

\* C14 witness: two qualifying messages were delivered one after the other
\* and each has its event, the task still connected.
C14_Witness ==
    /\ midiPc = "connected"
    /\ delivered = 2
    /\ Len(events) = 2
    /\ nBefore = 1
    /\ events[2].name = "midi"

----------------------------------------------------------------------------
(* Properties of the two pipelines side by side, under SpecPipes *)

\* The events of one name, in the order they were emitted.
EventsNamed(name) == SelectSeq(events, LAMBDA e : e.name = name)

\* C12: there is exactly one "error" event when the MIDI task failed at
\* startup and none in any other situation (audio startup failure, stream
\* error, failed emission, MIDI connected); and when the MIDI task has
\* failed, no message was ever taken and there is no "midi" event.
C12_ErrorOnlyOnMidiStartupFailure ==
    /\ Len(EventsNamed("error")) = IF midiPc = "failed" THEN 1 ELSE 0
    /\ midiPc = "failed" =>
          /\ delivered = 0
          /\ EventsNamed("midi") = <<>>
          /\ ~ ENABLED PipeMidiCallback

\* C12 witness: the MIDI task failed at startup with its one "error" event,
\* while the audio task had a stream error and an "fft" emission that
\* failed.
C12_Witness ==
    /\ midiPc = "failed"
    /\ Len(EventsNamed("error")) = 1
    /\ streamErrs = 1
    /\ \E i \in 1..Len(events) :
          events[i].name = "fft" /\ outcomes[i] = "Err"

\* C15: a callback whose emission fails returns normally: the step leaves
\* both tasks where they were and appends no "error" event; every emission
\* has an outcome, no task has panicked, and the events are as many as the
\* inputs call for whether or not emissions failed; after a failed emission
\* a connected or streaming pipeline still takes its next input.
C15_FailedEmitNeverStops ==
    /\ [][(Len(outcomes') > Len(outcomes) /\ outcomes'[Len(outcomes')] = "Err"
             /\ (delivered' # delivered \/ blocks' # blocks))
            => /\ midiPc' = midiPc
               /\ audioPc' = audioPc
               /\ EventsNamed("error")' = EventsNamed("error")]_vars
    /\ [](/\ Len(outcomes) = Len(events)
          /\ midiPc # "panicked" /\ audioPc # "panicked"
          /\ Len(EventsNamed("fft")) = Len(audioLog)
          /\ Len(EventsNamed("midi")) =
               Len(SelectSeq(midiLog, LAMBDA m :
                     Len(m) >= 3 /\ (m[1] % 16) \in 13..15)))
    /\ []((outcomes # <<>> /\ outcomes[Len(outcomes)] = "Err"
             /\ delivered + blocks < MaxInputs)
            => /\ midiPc = "connected" => ENABLED PipeMidiCallback
               /\ audioPc = "streaming" => ENABLED PipeAudioData)

\* C15 witness: an emission of a pipeline failed and a later input of the
\* same pipeline was processed and emitted.
C15_Witness ==
    \E i, j \in 1..Len(events) :
        /\ i < j
        /\ outcomes[i] = "Err"
        /\ events[i].name \in {"fft", "midi"}
        /\ events[j].name = events[i].name
        /\ outcomes[j] = "Ok"

\* The "midi" events a sequence of raw messages calls for, in order.
RECURSIVE ExpectedMidi(_)
ExpectedMidi(log) ==
    IF log = <<>> THEN <<>>
    ELSE LET m == Head(log)
         IN  (IF Len(m) >= 3 /\ (m[1] % 16) \in 13..15
              THEN <<[name |-> "midi",
                      payload |-> <<(m[1] % 16) + 1, m[2], m[3]>>]>>
              ELSE <<>>) \o ExpectedMidi(Tail(log))

\* The "fft" events a sequence of blocks calls for, in order, starting from
\* the buffer buf.
RECURSIVE ExpectedFft(_, _)
ExpectedFft(log, buf) ==
    IF log = <<>> THEN <<>>
    ELSE LET out == Fft(Overwrite(buf, Head(log)))
         IN  <<[name |-> "fft", payload |-> Mags(out)]>>
                \o ExpectedFft(Tail(log), out)

\* C16: the "midi" events are, in order, those of the messages in the order
\* they were delivered, and the "fft" events are, in order, those of the
\* blocks in the order they were delivered; nothing is said about how the
\* two interleave.
C16_ArrivalOrderPerPipeline ==
    /\ EventsNamed("midi") = ExpectedMidi(midiLog)
    /\ EventsNamed("fft") = ExpectedFft(audioLog, InitialBuffer)

\* C16 witness: two different "midi" events with an "fft" event between
\* them.
C16_Witness ==
    /\ Len(events) = 3
    /\ events[1].name = "midi"
    /\ events[2].name = "fft"
    /\ events[3].name = "midi"
    /\ events[1] # events[3]
    /\ Len(midiLog) = 2

----------------------------------------------------------------------------
(* Independence of the pipelines from the config store, under SpecApp *)

\* C19: whatever the commands do and whatever config was loaded, the "midi"
\* events are those the delivered messages call for with channels 13..15
\* accepted, and the "fft" events those the delivered blocks call for; a
\* step of a pipeline leaves the store, its lock, the file and the commands
\* in flight untouched, a step of a command leaves the pipelines untouched;
\* and a connected or streaming pipeline takes its next input also while a
\* command holds the lock.
C19_PipelinesIgnoreConfig ==
    /\ [](/\ EventsNamed("midi") = ExpectedMidi(midiLog)
          /\ EventsNamed("fft") = ExpectedFft(audioLog, InitialBuffer)
          /\ Len(events) = Len(EventsNamed("midi")) + Len(EventsNamed("fft")))
    /\ [][(delivered' # delivered \/ blocks' # blocks \/ events' # events
             \/ midiPc' # midiPc \/ audioPc' # audioPc)
            => UNCHANGED <<cfg, lock, file, pc, ret>>]_vars
    /\ [][(cfg' # cfg \/ lock' # lock \/ file' # file \/ pc' # pc)
            => UNCHANGED <<midiPc, audioPc, events, buffer, delivered, blocks>>]_vars
    /\ []((lock # NoOwner /\ calls + delivered + blocks < MaxWork)
            => /\ midiPc = "connected" => ENABLED AppMidiCallback
               /\ audioPc = "streaming" => ENABLED AppAudioData)

\* C19 witness: the loaded config names MIDI channel 3 for its only layer,
\* save_config holds the lock with the file truncated and not yet written,
\* and the events are one "midi" event on channel 14 (13 zero-indexed) and
\* one "fft" event, a message on zero-indexed channel 2 having been dropped.
C19_Witness ==
    /\ \E p \in Procs : pc[p] = "save_write" /\ lock = p
    /\ DOMAIN cfg = {"A"}
    /\ cfg["A"].midi_channel = 3
    /\ <<146, 127, 0>> \in {midiLog[i] : i \in 1..Len(midiLog)}
    /\ Len(events) = 2
    /\ EventsNamed("midi") = <<[name |-> "midi", payload |-> <<14, 127, 0>>]>>
    /\ Len(EventsNamed("fft")) = 1

----------------------------------------------------------------------------
(* The config lock, under SpecFair *)

\* The positions of a command between taking the lock and returning.
Holding == {"set_body", "set_ret", "get_clone", "get_ret", "save_to_string",
            "save_create", "save_write", "save_ret"}

\* The positions of a command waiting for the lock.
Waiting == {"set_lock", "get_lock", "save_lock"}

\* C20: the lock is held exactly by a command between its one acquisition
\* and its return; a command is only ever idle, waiting for the lock or
\* holding it (no step panics); every return, with Ok or with an error,
\* releases the lock; and every command invoked eventually completes.
C20_LockReleasedAndCallsComplete ==
    /\ [](\A p \in Procs : pc[p] \in {"idle"} \cup Waiting \cup Holding)
    /\ [](\A p \in Procs : (pc[p] \in Holding) <=> (lock = p))
    /\ [][\A p \in Procs :
            /\ (pc[p] \in Waiting /\ pc'[p] # pc[p])
                  => (lock = NoOwner /\ lock' = p)
            /\ (pc[p] \in Holding /\ pc'[p] = "idle")
                  => (lock' = NoOwner /\ ret'[p] # NoRet)
            /\ (pc[p] \in Holding /\ pc'[p] \in Holding) => lock' = p]_vars
    /\ \A p \in Procs : (pc[p] # "idle") ~> (pc[p] = "idle")

\* C20 witness: save_config holds the lock between truncating and writing
\* the file while another command waits for the lock.
C20_Witness ==
    \E p, q \in Procs :
        /\ p # q
        /\ pc[p] = "save_write" /\ lock = p
        /\ pc[q] \in Waiting
        /\ file = GarbageFile

====
